---- MODULE Spec2Model ----
(***************************************************************************)
(* Model of the TikTok recipe newsletter pipeline:                         *)
(*   tiktok_recipe_newsletter.py  main, load_subscribers,                  *)
(*                                save_recipes_archive, send_newsletter    *)
(*   recipe_extractor.py          extract_recipe_with_claude,              *)
(*                                extract_recipe_from_video                *)
(*   newsletter_builder.py        create_html_newsletter                   *)
(*   tiktok_scraper.py            get_video_comments                       *)
(*                                                                         *)
(* Python values are records tagged by "kind".  A dict key that is not     *)
(* there is the sentinel Missing / MissingSeq, a JSON null under a key is  *)
(* Null / NullSeq.  The text of a model reply is a sequence of tokens: a   *)
(* triple-backtick fence, the letters "json", whitespace, prose, or one    *)
(* complete JSON document (carrying the value json.loads gives for it).    *)
(*                                                                         *)
(* The external collaborators (comment fetch, model client, model call,    *)
(* archive file system, mail transport) answer nondeterministically with   *)
(* success or an exception.                                                *)
(***************************************************************************)
EXTENDS Integers, Sequences, FiniteSets, TLC

(***************************************************************************)
(* Bounds of the model.                                                    *)
(***************************************************************************)
MaxVideos == 3
MaxSubs == 2

(***************************************************************************)
(* Python values.                                                          *)
(***************************************************************************)
Missing == "<missing>"
Null == "<null>"
MissingSeq == <<"<missing>">>
NullSeq == <<"<null>">>

None == [kind |-> "None"]
EmptyDict == [kind |-> "emptydict"]
JsonList == [kind |-> "list"]
NoSource == [platform |-> Missing, author |-> Missing, url |-> Missing,
             likes |-> 0, views |-> 0]

Dict(title, prep, cook, serv, ingr, tips) ==
    [kind |-> "dict", title |-> title, prep_time |-> prep, cook_time |-> cook,
     servings |-> serv, ingredients |-> ingr, tips |-> tips, source |-> NoSource]

\* Python truth value of a value json.loads can return ("if recipe:").
Truthy(v) == v.kind \in {"dict", "list"}

\* Python truth value of a list read with .get(key): a missing key gives None,
\* and None and [] are false.
TruthySeq(s) == s \notin {MissingSeq, NullSeq, <<>>}

\* recipe['source'] = {...}: item assignment works on a dict; on a list it
\* raises TypeError.
SupportsItemAssignment(v) == v.kind \in {"dict", "emptydict"}

(***************************************************************************)
(* The videos of a run.  get_video_data_from_url gives every video the     *)
(* keys id, title, author, video_url, likes, views, caption.               *)
(***************************************************************************)
VideoOf(i) == [id |-> i, author |-> i, video_url |-> i, likes |-> 1000 * i,
               views |-> 5000 * i]

(***************************************************************************)
(* Replies of the language model.                                          *)
(***************************************************************************)
Fence == [t |-> "fence"]
Tag == [t |-> "json"]
Ws == [t |-> "ws"]
Prose == [t |-> "prose"]
Doc(v) == [t |-> "doc", v |-> v]

Pasta == Dict("Pasta", "10 minutes", "20 minutes", "4 servings",
              <<"1 cup flour", "2 eggs">>, <<"Salt the water">>)
Toast == Dict("Toast", Null, Missing, Null, <<"bread">>, <<>>)
NoIngredients == Dict("Soup", Null, Null, Null, <<>>, <<>>)
NoTitle == Dict("", Null, Null, Null, <<"water">>, MissingSeq)
NullIngredients == Dict("Stew", Missing, Missing, Missing, NullSeq, NullSeq)

Replies ==
    { <<Doc(Pasta)>>,
      <<Ws, Doc(Toast), Ws>>,
      <<Fence, Tag, Ws, Doc(Pasta), Ws, Fence>>,
      <<Fence, Ws, Doc(Toast), Ws, Fence>>,
      <<Fence, Ws, Tag, Doc(Toast), Fence>>,
      <<Doc(None)>>,
      <<Fence, Tag, Ws, Doc(None), Ws, Fence>>,
      <<Prose>>,
      <<Prose, Doc(Pasta)>>,
      <<Doc(NoIngredients)>>,
      <<Doc(NoTitle)>>,
      <<Doc(NullIngredients)>>,
      <<Doc(EmptyDict)>>,
      <<Doc(JsonList)>>,
      <<>> }

\* str.strip(): whitespace removed at both ends.
RECURSIVE LStrip(_)
LStrip(s) == IF s # <<>> /\ Head(s) = Ws THEN LStrip(Tail(s)) ELSE s

RECURSIVE RStrip(_)
RStrip(s) == IF s # <<>> /\ s[Len(s)] = Ws THEN RStrip(SubSeq(s, 1, Len(s) - 1))
             ELSE s

Strip(s) == RStrip(LStrip(s))

\* text.startswith(tok)
StartsWith(s, tok) == s # <<>> /\ Head(s) = tok

\* text.split("```")[1] for a text that starts with the fence: what stands
\* between the first fence and the next one (or the end of the text).
RECURSIVE UpToFence(_)
UpToFence(s) == IF s = <<>> \/ Head(s) = Fence THEN <<>>
                ELSE <<Head(s)>> \o UpToFence(Tail(s))

SplitFenceSecond(s) == UpToFence(Tail(s))

\* Lines 87-90: remove the markdown code block if present.
Unfence(s) ==
    IF StartsWith(s, Fence)
    THEN LET inner == SplitFenceSecond(s)
         IN IF StartsWith(inner, Tag) THEN Tail(inner) ELSE inner
    ELSE s

\* json.loads: the text must be exactly one JSON document.
JsonParses(s) == Len(s) = 1 /\ s[1].t = "doc"
JsonLoads(s) == s[1].v

\* Lines 81-96 of extract_recipe_with_claude: the reply text to the value
\* returned (json.JSONDecodeError gives None).
Cleaned(text) == Strip(Unfence(Strip(text)))

\* As ParseReply, with an empty dict in place of None for a text that is
\* not JSON.
ParseReplyEmptyDict(text) ==
    IF JsonParses(Cleaned(text)) THEN JsonLoads(Cleaned(text)) ELSE EmptyDict

ParseReply(text) ==
    IF JsonParses(Cleaned(text)) THEN JsonLoads(Cleaned(text)) ELSE None

(***************************************************************************)
(* extract_recipe_with_claude(caption, comments).  env gives the answers   *)
(* of the collaborators for this call:                                     *)
(*   env.key     ANTHROPIC_API_KEY is set                                  *)
(*   env.client  "ok" or "raise"  (anthropic.Anthropic(...))               *)
(*   env.call    "ok" or "raise"  (client.messages.create(...))            *)
(*   env.reply   the text of the reply                                     *)
(***************************************************************************)
ModelInvoked(env) == env.key /\ env.client = "ok"

ExtractRecipeWithClaude(env) ==
    IF ~env.key THEN None
    ELSE IF env.client = "raise" THEN None
    ELSE IF env.call = "raise" THEN None
    ELSE ParseReply(env.reply)

\* Lines 129-135: the source stamp.
StampSource(recipe, video) ==
    [recipe EXCEPT !.source = [platform |-> "TikTok", author |-> video.author,
                               url |-> video.video_url, likes |-> video.likes,
                               views |-> video.views]]

(***************************************************************************)
(* extract_recipe_from_video(video_data).  env.fetch is "ok" or "raise",   *)
(* the answer of get_video_comments.                                       *)
(***************************************************************************)
\* Lines 116-135, the body of the try block: exc says that an exception left
\* it (the comment fetch raised, or the source stamp raised TypeError).
TryBody(video, env) ==
    IF env.fetch = "raise" THEN [exc |-> TRUE, recipe |-> None]
    ELSE LET recipe == ExtractRecipeWithClaude(env)
         IN IF Truthy(recipe)
            THEN IF SupportsItemAssignment(recipe)
                 THEN [exc |-> FALSE, recipe |-> StampSource(recipe, video)]
                 ELSE [exc |-> TRUE, recipe |-> recipe]
            ELSE [exc |-> FALSE, recipe |-> recipe]

\* As ExtractRecipeFromVideo, without the "except Exception" handler.
ExtractRecipeFromVideoNoHandler(video, env) ==
    LET body == TryBody(video, env)
    IN [raised |-> body.exc, value |-> body.recipe]

\* Lines 113-141: "except Exception" sets recipe = None; the function returns.
ExtractRecipeFromVideo(video, env) ==
    LET body == TryBody(video, env)
    IN IF body.exc THEN [raised |-> FALSE, value |-> None]
       ELSE [raised |-> FALSE, value |-> body.recipe]

\* True when the comment fetch was followed by the call of the model.
ReachedModel(env) == env.fetch = "ok" /\ ModelInvoked(env)

(***************************************************************************)
(* create_html_newsletter(recipes).                                        *)
(* The document is its header date and its recipe cards.                   *)
(***************************************************************************)
\* dict.get(key, default): the default only for a key that is not there.
Get(v, default) == IF v = Missing THEN default ELSE v
GetSeq(v, default) == IF v = MissingSeq THEN default ELSE v

\* What an f-string shows for a value: str(None) is "None".
PyStr(v) == IF v = Null THEN "None" ELSE v

\* datetime.now().strftime('%B %d, %Y') and strftime('%Y%m%d')
NextDay(d) == IF d = "d1" THEN "d2" ELSE d
FormatLong(d) == IF d = "d1" THEN "November 04, 2026" ELSE "November 05, 2026"
FormatYmd(d) == IF d = "d1" THEN "20261104" ELSE "20261105"

\* Lines 35-46: the tips block, emitted only for a true tips value.
TipsHtml(recipe) ==
    IF TruthySeq(recipe.tips) THEN [shown |-> TRUE, items |-> recipe.tips]
    ELSE [shown |-> FALSE, items |-> <<>>]

\* As RecipeCard, numbered by enumerate(recipes) without the start value 1.
RecipeCardFromZero(rank, recipe) ==
    [rank |-> rank - 1,
     title |-> PyStr(Get(recipe.title, "Untitled Recipe")),
     creator |-> recipe.source.author,
     likes |-> recipe.source.likes,
     views |-> recipe.source.views,
     prep |-> PyStr(Get(recipe.prep_time, "N/A")),
     cook |-> PyStr(Get(recipe.cook_time, "N/A")),
     serves |-> PyStr(Get(recipe.servings, "N/A")),
     ingredients |-> GetSeq(recipe.ingredients, <<>>),
     tips |-> TipsHtml(recipe),
     url |-> recipe.source.url]

\* Lines 22-114: one card.
RecipeCard(rank, recipe) ==
    [rank |-> rank,
     title |-> PyStr(Get(recipe.title, "Untitled Recipe")),
     creator |-> recipe.source.author,
     likes |-> recipe.source.likes,
     views |-> recipe.source.views,
     prep |-> PyStr(Get(recipe.prep_time, "N/A")),
     cook |-> PyStr(Get(recipe.cook_time, "N/A")),
     serves |-> PyStr(Get(recipe.servings, "N/A")),
     ingredients |-> GetSeq(recipe.ingredients, <<>>),
     tips |-> TipsHtml(recipe),
     url |-> recipe.source.url]

\* Lines 26-28: iterating recipe.get('ingredients', []) raises TypeError when
\* the value under the key is None.
CardRaises(recipe) == recipe.ingredients = NullSeq

RenderRaises(batch) == \E j \in 1..Len(batch) : CardRaises(batch[j])

CreateHtmlNewsletter(batch, day) ==
    [date |-> FormatLong(day),
     cards |-> [j \in 1..Len(batch) |-> RecipeCard(j, batch[j])]]

NoHtml == [date |-> Missing, cards |-> <<>>]

(***************************************************************************)
(* Files and subscribers.                                                  *)
(***************************************************************************)
NoArchive == [name |-> Missing, recipes |-> <<>>]

\* save_recipes_archive: the file written.
ArchiveFile(batch, day) == [name |-> FormatYmd(day), recipes |-> batch]

\* One entry of subscribers.json: with its email, or without the key.
Entry(j, hasEmail) == [email |-> IF hasEmail THEN j ELSE 0]
HasEmail(e) == e.email # 0

SubscriberLists ==
    UNION { [1..len -> BOOLEAN] : len \in 0..MaxSubs }

EntriesOf(shape) == [j \in 1..Len(shape) |-> Entry(j, shape[j])]

\* The states of subscribers.json: not there, not JSON, or a list.
SubscriberFiles ==
    { [state |-> "absent", list |-> <<>>], [state |-> "malformed", list |-> <<>>] }
    \cup { [state |-> "list", list |-> EntriesOf(sh)] : sh \in SubscriberLists }

\* Before load_subscribers runs the file is not observed: it may be in any
\* of its states.
Unread == [state |-> "unread", list |-> <<>>]

\* send_newsletter has not built its subject line yet.
NoSubject == [text |-> Missing, date |-> Missing]

(***************************************************************************)
(* State.                                                                  *)
(***************************************************************************)
VARIABLES
    pc,          \* position of main()
    environ,     \* os.environ: which keys are set
    videos,      \* the list get_trending_recipe_videos returned
    results,     \* per video processed: "None", "falsy" or "recipe"
    last,        \* the latest call of extract_recipe_from_video
    recipes,     \* main(): recipes
    today,       \* the day datetime.now() is in
    archive,     \* archive/recipes_<date>.json
    html,        \* main(): html_content
    preview,     \* latest_newsletter.html
    archiveError, \* save_recipes_archive raised
    subsFile,    \* subscribers.json as load_subscribers found it
    loaded,      \* load_subscribers was called
    subscribers, \* main(): subscribers
    subject,     \* send_newsletter: subject
    sent_count,  \* send_newsletter: sent_count
    failed,      \* send_newsletter: failed
    attempts,    \* the calls of resend.Emails.send, in order
    steps        \* the steps of main() after the loop, in the order begun

vars == <<pc, environ, videos, results, last, recipes, today, archive,
          archiveError, html, preview, subsFile, loaded, subscribers, subject,
          sent_count, failed, attempts, steps>>

\* No call of extract_recipe_from_video is under observation.
NoCall == [video |-> 0, fetch |-> "none", key |-> FALSE, client |-> "none",
           call |-> "none", parsed |-> FALSE, invoked |-> FALSE,
           offered |-> None, result |-> None, raised |-> FALSE]

Terminal == {"done", "no_recipes", "no_subscribers", "crashed"}

Init ==
    /\ pc = "extract"
    /\ environ \in [ANTHROPIC_API_KEY : BOOLEAN, RESEND_API_KEY : BOOLEAN]
    /\ \E n \in 0..MaxVideos : videos = [j \in 1..n |-> VideoOf(j)]
    /\ results = <<>>
    /\ last = NoCall
    /\ recipes = <<>>
    /\ today = "d1"
    /\ archive = NoArchive
    /\ html = NoHtml
    /\ preview = NoHtml
    /\ archiveError = FALSE
    /\ subsFile = Unread
    /\ loaded = FALSE
    /\ subscribers = <<>>
    /\ subject = NoSubject
    /\ sent_count = 0
    /\ failed = <<>>
    /\ attempts = <<>>
    /\ steps = <<>>

(***************************************************************************)
(* main(), lines 82-97: the batch loop and the check after it.             *)
(***************************************************************************)
\* The answers the collaborators can give during one call.  A collaborator
\* that is not reached answers "none".  reply is what the model has to say
\* about the video (<<>> where no reply comes back); under a failed comment
\* fetch it is the reply the caption alone would have got.
Envs(key) ==
    [fetch : {"raise"}, key : {key}, client : {"none"}, call : {"none"},
     reply : Replies]
    \cup (IF key
          THEN [fetch : {"ok"}, key : {key}, client : {"ok"}, call : {"ok"},
                reply : Replies]
               \cup {[fetch |-> "ok", key |-> key, client |-> "raise",
                      call |-> "none", reply |-> <<>>],
                     [fetch |-> "ok", key |-> key, client |-> "ok",
                      call |-> "raise", reply |-> <<>>]}
          ELSE {[fetch |-> "ok", key |-> key, client |-> "none",
                 call |-> "none", reply |-> <<>>]})

ResultKind(out) == IF out.raised THEN "raised"
                   ELSE IF out.value = None THEN "None"
                   ELSE IF Truthy(out.value) THEN "recipe" ELSE "falsy"

\* As Collect, inserting at the front of the list.
CollectAtFront(batch, out) ==
    IF ~out.raised /\ Truthy(out.value) THEN <<out.value>> \o batch ELSE batch

\* Lines 85-91: one iteration.  An exception of the call is caught (line 90);
\* a true result is appended.
Collect(batch, out) ==
    IF ~out.raised /\ Truthy(out.value) THEN Append(batch, out.value) ELSE batch

ProcessVideo ==
    /\ pc = "extract"
    /\ Len(results) < Len(videos)
    /\ \E env \in Envs(environ.ANTHROPIC_API_KEY) :
         LET video == videos[Len(results) + 1]
             out == ExtractRecipeFromVideo(video, env)
         IN /\ recipes' = Collect(recipes, out)
            /\ results' = Append(results, ResultKind(out))
            /\ last' = [video |-> video.id, fetch |-> env.fetch,
                        key |-> env.key, client |-> env.client,
                        call |-> env.call,
                        parsed |-> JsonParses(Cleaned(env.reply)),
                        invoked |-> ReachedModel(env),
                        offered |-> ParseReply(env.reply),
                        result |-> out.value, raised |-> out.raised]
    /\ UNCHANGED <<pc, environ, videos, today, archive, archiveError, html,
                   preview, subsFile, loaded, subscribers, subject,
                   sent_count, failed, attempts,
                   steps>>

\* As AfterLoop, without the check of lines 95-97.
AfterLoopNoCheck(batch) == "archive"

\* Lines 93-97: after the loop.
AfterLoop(batch) == IF batch = <<>> THEN "no_recipes" ELSE "archive"

LoopDone ==
    /\ pc = "extract"
    /\ Len(results) = Len(videos)
    /\ pc' = AfterLoop(recipes)
    /\ last' = NoCall
    /\ UNCHANGED <<environ, videos, results, recipes, today, archive,
                   archiveError, html, preview, subsFile, loaded,
                   subscribers, subject, sent_count, failed, attempts,
                   steps>>

(***************************************************************************)
(* main(), line 100: save_recipes_archive(recipes).  The write (mkdir,     *)
(* open, json.dump) succeeds or raises OSError; nothing catches it.        *)
(***************************************************************************)
\* As AfterArchive, going on to the sending with the render and the preview
\* write left for later.
AfterArchiveStraightToSend(io) == IF io = "ok" THEN "load" ELSE "crashed"

AfterArchive(io) == IF io = "ok" THEN "render" ELSE "crashed"

SaveRecipesArchive ==
    /\ pc = "archive"
    /\ \E io \in {"ok", "raise"} :
         /\ archive' = IF io = "ok" THEN ArchiveFile(recipes, today) ELSE archive
         /\ archiveError' = (io = "raise")
         /\ pc' = AfterArchive(io)
    /\ steps' = Append(steps, "archive")
    /\ UNCHANGED <<environ, videos, results, last, recipes, today, html,
                   preview, subsFile, loaded, subscribers, subject,
                   sent_count, failed, attempts>>

(***************************************************************************)
(* main(), line 104: html_content = create_html_newsletter(recipes).       *)
(***************************************************************************)
Render ==
    /\ pc = "render"
    /\ IF RenderRaises(recipes)
       THEN pc' = "crashed" /\ html' = html
       ELSE pc' = "preview" /\ html' = CreateHtmlNewsletter(recipes, today)
    /\ steps' = Append(steps, "render")
    /\ UNCHANGED <<environ, videos, results, last, recipes, today, archive,
                   archiveError, preview, subsFile, loaded, subscribers,
                   subject, sent_count, failed, attempts>>

(***************************************************************************)
(* main(), lines 107-108: the local copy latest_newsletter.html.           *)
(***************************************************************************)
WritePreview ==
    /\ pc = "preview"
    /\ preview' = html
    /\ pc' = "load"
    /\ steps' = Append(steps, "preview")
    /\ UNCHANGED <<environ, videos, results, last, recipes, today, archive,
                   archiveError, html, subsFile, loaded, subscribers,
                   subject, sent_count, failed, attempts>>

(***************************************************************************)
(* main(), lines 113-118: load_subscribers() and the check of its result.  *)
(* json.load of a file that is not JSON raises; nothing catches it.        *)
(***************************************************************************)
LoadSubscribersValue(file) == IF file.state = "list" THEN file.list ELSE <<>>

AfterLoad(file) ==
    IF file.state = "malformed" THEN "crashed"
    ELSE IF LoadSubscribersValue(file) = <<>> THEN "no_subscribers"
    ELSE "send_start"

LoadSubscribers ==
    /\ pc = "load"
    /\ \E file \in SubscriberFiles :
         /\ subsFile' = file
         /\ subscribers' = LoadSubscribersValue(file)
         /\ pc' = AfterLoad(file)
    /\ loaded' = TRUE
    /\ UNCHANGED <<environ, videos, results, last, recipes, today, archive,
                   archiveError, html, preview, subject, sent_count, failed,
                   attempts,
                   steps>>

(***************************************************************************)
(* send_newsletter(html_content, subscribers).                             *)
(***************************************************************************)
\* Line 42
Subject(day) == [text |-> "Top 5 TikTok Recipes", date |-> FormatLong(day)]

\* Lines 40-45: os.environ["RESEND_API_KEY"] raises KeyError when not set.
SendStart ==
    /\ pc = "send_start"
    /\ IF environ.RESEND_API_KEY
       THEN pc' = "send" /\ subject' = Subject(today)
       ELSE pc' = "crashed" /\ subject' = subject
    /\ steps' = Append(steps, "distribute")
    /\ UNCHANGED <<environ, videos, results, last, recipes, today, archive,
                   archiveError, html, preview, subsFile, loaded,
                   subscribers, sent_count, failed, attempts>>

\* As RecordFailure, with the append of line 62 left out.
RecordFailureForgotten(list, entry) == list

\* Lines 60-62, the handler of one failed send: the address is recorded.
RecordFailure(list, entry) == Append(list, entry.email)

\* Lines 47-62: one iteration.  An entry without "email" raises KeyError in
\* the try block and again in the handler (lines 61-62), which ends the run.
SendOne ==
    /\ pc = "send"
    /\ Len(attempts) < Len(subscribers)
    /\ LET entry == subscribers[Len(attempts) + 1]
       IN IF ~HasEmail(entry)
          THEN /\ pc' = "crashed"
               /\ attempts' = attempts
               /\ sent_count' = sent_count
               /\ failed' = failed
          ELSE \E outcome \in {"ok", "raise"} :
                 /\ attempts' = Append(attempts,
                        [to |-> entry.email, subject |-> subject,
                         html |-> html, outcome |-> outcome])
                 /\ sent_count' = IF outcome = "ok" THEN sent_count + 1
                                  ELSE sent_count
                 /\ failed' = IF outcome = "ok" THEN failed
                              ELSE RecordFailure(failed, entry)
                 /\ pc' = pc
    /\ UNCHANGED <<environ, videos, results, last, recipes, today, archive,
                   archiveError, html, preview, subsFile, loaded, subscribers,
                   subject,
                   steps>>

\* Lines 64-68 and 122: the loop is over, send_newsletter returns, main ends.
SendReturn ==
    /\ pc = "send"
    /\ Len(attempts) = Len(subscribers)
    /\ pc' = "done"
    /\ UNCHANGED <<environ, videos, results, last, recipes, today, archive,
                   archiveError, html, preview, subsFile, loaded,
                   subscribers, subject, sent_count, failed, attempts,
                   steps>>

(***************************************************************************)
(* The wall clock: midnight passes during the run.                         *)
(***************************************************************************)
Tick ==
    /\ pc \notin Terminal
    /\ today # NextDay(today)
    /\ today' = NextDay(today)
    /\ UNCHANGED <<pc, environ, videos, results, last, recipes, archive,
                   archiveError, html, preview, subsFile, loaded,
                   subscribers, subject, sent_count, failed, attempts,
                   steps>>

Next ==
    \/ ProcessVideo
    \/ LoopDone
    \/ SaveRecipesArchive
    \/ Render
    \/ WritePreview
    \/ LoadSubscribers
    \/ SendStart
    \/ SendOne
    \/ SendReturn
    \/ Tick

Spec == Init /\ [][Next]_vars

(***************************************************************************)
(* Properties.                                                             *)
(***************************************************************************)
IsDict(v) == v.kind = "dict"

\* The videos processed so far whose extraction gave a recipe, in order.
Succeeded(j) == results[j] = "recipe"
SuccessIndices == SelectSeq([j \in 1..Len(results) |-> j], Succeeded)
FailureCount == Cardinality({j \in 1..Len(results) : results[j] # "recipe"})

\* C1: of N videos of which M give absence or fail, the batch loop leaves
\* exactly N - M records in recipes, in the order of their videos: the k-th
\* record is the one of the k-th successful video, with no gap, nothing sorted
\* again and nothing twice.
C1_BatchKeepsSuccessesInOrder ==
    /\ Len(recipes) = Len(SuccessIndices)
    /\ \A k \in 1..Len(SuccessIndices) :
         /\ k <= Len(recipes)
         /\ recipes[k].source.url = videos[SuccessIndices[k]].video_url
         /\ recipes[k].source.author = videos[SuccessIndices[k]].author
    /\ pc # "extract" =>
         /\ Len(results) = Len(videos)
         /\ Len(recipes) = Len(videos) - FailureCount

\* C1 witness: three videos, the middle one failed, the loop is over.
C1_Witness ==
    /\ pc # "extract"
    /\ Len(videos) = 3
    /\ results = <<"recipe", "None", "recipe">>
    /\ Len(recipes) = 2

\* The step of extract_recipe_from_video that failed in the call observed.
FetchFailed(c) == c.fetch = "raise"
KeyMissing(c) == c.fetch = "ok" /\ ~c.key
ClientFailed(c) == c.client = "raise"
CallFailed(c) == c.call = "raise"
ParseFailed(c) == c.fetch = "ok" /\ c.call = "ok" /\ ~c.parsed
StampFailed(c) == /\ c.fetch = "ok" /\ c.call = "ok" /\ c.parsed
                  /\ Truthy(c.offered) /\ ~SupportsItemAssignment(c.offered)
StepFailed(c) == \/ FetchFailed(c) \/ KeyMissing(c) \/ ClientFailed(c)
                 \/ CallFailed(c) \/ ParseFailed(c) \/ StampFailed(c)

\* C2: extract_recipe_from_video never lets an exception reach its caller:
\* whichever step fails (comment fetch, client setup, model call, parsing,
\* source stamp) the call returns None, and the loop attempts every video.
C2_NoExceptionLeavesExtraction ==
    /\ \A j \in 1..Len(results) : results[j] # "raised"
    /\ last.video # 0 =>
         /\ ~last.raised
         /\ StepFailed(last) => last.result = None
    /\ pc # "extract" => Len(results) = Len(videos)

\* C2 witness: the first video failed, and the second was attempted and
\* failed at the source stamp (the reply was a JSON list).
C2_Witness ==
    /\ Len(results) = 2
    /\ results[1] = "None"
    /\ last.video = 2
    /\ StampFailed(last)
    /\ last.result = None

FailedAttempts == {j \in 1..Len(attempts) : attempts[j].outcome = "raise"}
AllHaveEmail == \A j \in 1..Len(subscribers) : HasEmail(subscribers[j])

\* C3: with K entries of which the send to exactly one fails, send_newsletter
\* attempts all K in list order and returns with sent_count = K - 1 and with
\* exactly the failing address in failed; the failure does not end the loop.
C3_OneFailedSend ==
    /\ (pc = "done" /\ Cardinality(FailedAttempts) = 1) =>
         /\ Len(attempts) = Len(subscribers)
         /\ \A j \in 1..Len(attempts) : attempts[j].to = subscribers[j].email
         /\ sent_count = Len(subscribers) - 1
         /\ \E j \in FailedAttempts : failed = <<attempts[j].to>>
    /\ (subject # NoSubject /\ AllHaveEmail) => pc \in {"send", "done"}

\* C3 witness: two entries, the first send failed, the second was made.
C3_Witness ==
    /\ pc = "done"
    /\ Len(subscribers) = 2
    /\ attempts[1].outcome = "raise"
    /\ attempts[2].outcome = "ok"
    /\ sent_count = 1

\* C4: a run that extracts no recipe ends without writing the archive,
\* without rendering or writing the preview, without loading subscribers and
\* without calling send_newsletter.
C4_NoRecipesNoEffects ==
    (recipes = <<>> /\ pc # "extract") =>
        /\ pc = "no_recipes"
        /\ archive = NoArchive
        /\ ~archiveError
        /\ html = NoHtml
        /\ preview = NoHtml
        /\ ~loaded
        /\ subject = NoSubject
        /\ attempts = <<>>
        /\ sent_count = 0

\* C4 witness: two or more videos, none gave a recipe, the run is over.
C4_Witness ==
    /\ pc = "no_recipes"
    /\ Len(videos) >= 2
    /\ \E j \in 1..Len(results) : results[j] = "falsy"

\* The subscriber list is absent or empty (a run that ended before
\* load_subscribers may have had such a file).
SubscribersAbsentOrEmpty ==
    \/ subsFile.state \in {"unread", "absent"}
    \/ subsFile.state = "list" /\ subsFile.list = <<>>

\* C5: a run with at least one recipe and an absent or empty subscriber list
\* writes the archive, writes the preview, never calls send_newsletter, and
\* completes normally.
C5_NoSubscribersStillPreviews ==
    (pc \in Terminal /\ recipes # <<>> /\ SubscribersAbsentOrEmpty) =>
        /\ archive # NoArchive
        /\ preview # NoHtml
        /\ subject = NoSubject
        /\ attempts = <<>>
        /\ pc = "no_subscribers"

\* The validity rule: a title and at least one ingredient.
EmptyTitleOrIngredients(r) == r.title = "" \/ r.ingredients = <<>>

\* C6: a reply that parses to a recipe object with an empty ingredients list
\* (or an empty title) gives None, and no such object is in the batch, in the
\* archive or in the rendered document.
C6_InvalidRecipeRejected ==
    /\ (last.video # 0 /\ last.fetch = "ok" /\ last.call = "ok"
          /\ IsDict(last.offered) /\ EmptyTitleOrIngredients(last.offered))
         => last.result = None
    /\ \A j \in 1..Len(recipes) : ~EmptyTitleOrIngredients(recipes[j])
    /\ \A j \in 1..Len(archive.recipes) :
         ~EmptyTitleOrIngredients(archive.recipes[j])
    /\ \A j \in 1..Len(html.cards) :
         ~EmptyTitleOrIngredients(html.cards[j])

\* C7: a run with at least one recipe whose archive write fails still renders
\* the newsletter and writes the preview file.
C7_ArchiveFailureStillPreviews ==
    (pc \in Terminal /\ archiveError) =>
        /\ html # NoHtml
        /\ preview = html

Shown(v) == IF v \in {Missing, Null} THEN "N/A" ELSE v

\* C9: every card shows "N/A" for each of prep_time, cook_time, servings that
\* is missing or null and the value itself otherwise, and has the tips block
\* if and only if tips is not empty.
C9_PlaceholdersForMissingFields ==
    \A j \in 1..Len(html.cards) :
        /\ html.cards[j].prep = Shown(recipes[j].prep_time)
        /\ html.cards[j].cook = Shown(recipes[j].cook_time)
        /\ html.cards[j].serves = Shown(recipes[j].servings)
        /\ html.cards[j].tips.shown = TruthySeq(recipes[j].tips)

\* C10: the date in the subject of every message sent is the date in the
\* header of the document sent, however the clock moves between rendering
\* and sending.
C10_SubjectDateIsHeaderDate ==
    \A j \in 1..Len(attempts) : attempts[j].subject.date = attempts[j].html.date

\* The positions of main() after create_html_newsletter has returned.
Rendered == pc \in {"preview", "load", "send_start", "send", "done",
                    "no_subscribers"}

\* C11: the document rendered from a batch of n records has exactly n cards,
\* in batch order, the i-th card ranked #i.
C11_OneCardPerRecordRankedInOrder ==
    /\ Rendered => html # NoHtml
    /\ html # NoHtml =>
         /\ Len(html.cards) = Len(recipes)
         /\ \A j \in 1..Len(html.cards) :
              /\ html.cards[j].rank = j
              /\ html.cards[j].url = recipes[j].source.url
              /\ html.cards[j].creator = recipes[j].source.author
              /\ html.cards[j].title = PyStr(Get(recipes[j].title,
                                                 "Untitled Recipe"))

\* C11 witness: two videos, the first gave the Pasta recipe and the second
\* gave absence; the document has one card, ranked #1.
C11_Witness ==
    /\ Len(videos) = 2
    /\ results = <<"recipe", "None">>
    /\ Len(recipes) = 1
    /\ Len(html.cards) = 1
    /\ html.cards[1].rank = 1
    /\ html.cards[1].title = "Pasta"
    /\ html.cards[1].ingredients = <<"1 cup flour", "2 eggs">>

\* The reply of the call observed came back and is not JSON, or is the
\* literal null.
ReplyCame(c) == c.fetch = "ok" /\ c.call = "ok"
Unparsable(c) == ReplyCame(c) /\ ~c.parsed
LiteralNull(c) == ReplyCame(c) /\ c.parsed /\ c.offered = None

\* C12: a reply that is not parseable, and a reply that is the literal null,
\* both give None without an exception (the caller sees the same value in
\* both cases), and neither adds a record to the batch.
C12_UnparsableAndNullAreAbsence ==
    (last.video # 0 /\ (Unparsable(last) \/ LiteralNull(last))) =>
        /\ ~last.raised
        /\ last.result = None
        /\ results[last.video] = "None"
        /\ \A j \in 1..Len(recipes) :
             recipes[j].source.url # videos[last.video].video_url

\* C12 witness: the first video gave None; the second video's reply came
\* back, is not JSON, and the batch is still empty.
C12_Witness ==
    /\ last.video = 2
    /\ Unparsable(last)
    /\ results = <<"None", "None">>
    /\ recipes = <<>>

\* C13: no failure confined to one entry (a rejected send, an entry without
\* an email field) makes send_newsletter raise: once its loop has begun the
\* run does not end in an exception, and on return every entry is counted as
\* sent or as failed.
C13_NoEntryFailureRaises ==
    /\ subject # NoSubject => pc \in {"send", "done"}
    /\ pc = "done" => sent_count + Len(failed) = Len(subscribers)

\* The steps of main() after the batch loop, in the order of the code.
StepOrder == <<"archive", "render", "preview", "distribute">>
Begun(step) == \E j \in 1..Len(steps) : steps[j] = step

\* C14: the steps of a run are the extraction of all videos, then the archive
\* write, the render, the preview write and the distribution, in this order
\* and each at most once; the preview file is written before the first send
\* attempt and holds the rendered document whatever the sends do, a fatal
\* failure of the mail transport included.
C14_StepsInOrderPreviewBeforeSend ==
    /\ Len(steps) <= Len(StepOrder)
    /\ \A j \in 1..Len(steps) : steps[j] = StepOrder[j]
    /\ steps # <<>> => (pc # "extract" /\ Len(results) = Len(videos))
    /\ (archive # NoArchive \/ archiveError) => Begun("archive")
    /\ html # NoHtml => Begun("render")
    /\ preview # NoHtml => Begun("preview")
    /\ (attempts # <<>> \/ subject # NoSubject) => Begun("distribute")
    /\ Begun("distribute") => (html # NoHtml /\ preview = html)

\* C14 witness: send_newsletter was called and ended in an exception before
\* any send (RESEND_API_KEY is not set); the preview holds the document.
C14_Witness ==
    /\ pc = "crashed"
    /\ steps = StepOrder
    /\ ~environ.RESEND_API_KEY
    /\ attempts = <<>>
    /\ html # NoHtml
    /\ preview = html

====
